---- MODULE Spec2Model ----
(***************************************************************************)
(* Model of the two scripts of azure-resource-management-scripts:          *)
(*   filter_user_groups.py   - CSV row filter (filter_production_groups)   *)
(*   list_resource_types.py  - Azure inventory (AzureResourceTypeAnalyzer) *)
(* Strings are sequences of one-character strings so that substring        *)
(* matching, lstrip and split are computed, not assumed.                   *)
(***************************************************************************)
EXTENDS Integers, Sequences, FiniteSets, TLC

VARIABLES
    pc,                 \* position of the running function
    \* ---- filter_user_groups.py
    input_file,         \* [exists, header, rows]: the CSV at input_file
    output_file,        \* [exists, header, rows]: the CSV at output_file
    outfile_opened,     \* open(output_file, 'w') has been executed
    row_index,          \* position of csv.DictReader in the data rows
    filtered_data,      \* list of kept row dicts
    excluded_count,
    total_count,
    printed,            \* which closing message was printed
    result,             \* return value of filter_production_groups ("running" before)
    \* ---- list_resource_types.py
    target_subscriptions,
    tenant,             \* what subscription_client.subscriptions.list() yields
    subscriptions,      \* get_all_resources: resolved subscription ids
    sub_index,          \* get_all_resources: position of the for loop
    resources,          \* get_resources_from_subscription: list being built
    all_resources,
    listed,             \* per loop iteration: what resources.list() served, and whether it raised
    analysis,
    saved_file          \* azure_resource_analysis_target_subs.json

filterVars == <<input_file, output_file, outfile_opened, row_index, filtered_data,
                excluded_count, total_count, printed, result>>
invVars == <<target_subscriptions, tenant, subscriptions, sub_index,
             resources, all_resources, listed, analysis, saved_file>>
vars == <<pc, filterVars, invVars>>

(***************************************************************************)
(* Bounds of the explored inputs                                           *)
(***************************************************************************)
MaxRows == 2          \* data rows per input CSV
MaxTargets == 3       \* entries of target_subscriptions when resolving
MaxTenant == 2        \* subscriptions the tenant lists
MaxRunTargets == 2    \* entries of target_subscriptions in a whole run of main
MaxPerSub == 1        \* resources one subscription lists in a whole run of main
NKeys == 12           \* distinct locations / resource groups offered to the aggregator
MaxTail == 3          \* freely chosen resources at the end of an aggregator input

(***************************************************************************)
(* Generic helpers on sequences                                            *)
(***************************************************************************)
Range(s) == {s[i] : i \in 1..Len(s)}

SeqsUpTo(S, n) == UNION {[1..k -> S] : k \in 0..n}

\* Python "sub in s" on strings
Contains(s, sub) ==
    \E i \in 0..(Len(s) - Len(sub)) : SubSeq(s, i + 1, i + Len(sub)) = sub

\* Python str.lstrip(chars) for a one-character chars argument
RECURSIVE lstrip(_, _)
lstrip(s, ch) ==
    IF s # <<>> /\ Head(s) = ch THEN lstrip(Tail(s), ch) ELSE s

(***************************************************************************)
(* filter_user_groups.py                                                   *)
(***************************************************************************)
BOM == "\\ufeff"

exclusion_strings ==
    << <<"D","V">>, <<"D","E","V">>, <<"U","A","T">>, <<"S","B">>,
       <<"D","I","T">>, <<"P","T">>, <<"S","I","T">>, <<"D","e","v">>,
       <<"U","A">>, <<"Q","A">>, <<"T","e","s","t">>,
       <<"S","a","n","d","b","o","x">>, <<"S","A","N","D","B","O","X">>,
       <<"S","a","n","d","B","o","x">> >>

\* csv.DictReader: restkey and restval both default to None
restkey == "<None>"
restval == <<"<None>">>

\* the dict csv.DictReader builds from one non-blank line
DictRow(header, raw) ==
    LET lf == Len(header)
        lr == Len(raw)
        named == Range(header)
        keys == IF lr > lf THEN named \cup {restkey} ELSE named
        pos(k) == CHOOSE p \in 1..lf :
                     /\ header[p] = k
                     /\ \A q \in 1..lf : header[q] = k => q <= p
    IN  [k \in keys |->
            IF k \notin named THEN SubSeq(raw, lf + 1, lr)
            ELSE IF pos(k) <= lr THEN raw[pos(k)]
            ELSE restval]

\* row.get('Name', '')
GetName(row) == IF "Name" \in DOMAIN row THEN row["Name"] ELSE <<>>

\* any(exclude_str in name for exclude_str in exclusion_strings)
should_exclude(name) ==
    \E e \in 1..Len(exclusion_strings) : Contains(name, exclusion_strings[e])

fieldnames == <<"Name", "Id">>

\* csv.DictWriter._dict_to_list with extrasaction='raise': the ValueError case
WrongFields(row) == DOMAIN row \ Range(fieldnames)

\* csv.DictWriter._dict_to_list + csv.writer: missing keys and None become ''
WrittenRow(row) ==
    [i \in 1..Len(fieldnames) |->
        IF fieldnames[i] \notin DOMAIN row THEN <<>>
        ELSE IF row[fieldnames[i]] = restval THEN <<>>
        ELSE row[fieldnames[i]]]

\* rows that reach the file before writerows raises (all of them when none is bad)
RECURSIVE WrittenPrefix(_)
WrittenPrefix(data) ==
    IF data = <<>> THEN <<>>
    ELSE IF WrongFields(Head(data)) # {} THEN <<>>
    ELSE <<WrittenRow(Head(data))>> \o WrittenPrefix(Tail(data))

AbsentFile == [exists |-> FALSE, header |-> <<>>, rows |-> <<>>]

\* ---- inputs of the filter runs
Names ==
    { <<"P","r","o","d">>,            \* kept
      <<"D","V">>,                    \* excluded
      <<BOM,"D","V">>,                \* excluded once the BOM is stripped
      <<"D",BOM,"V">>,                \* kept: BOM is not leading
      <<"d","e","v">>,                \* kept: the match is case-sensitive
      <<"A","-","U","A","T">>,        \* excluded (UAT and UA)
      <<>> }                          \* kept: empty name

RawRows ==
    {<<n, <<"1">>>> : n \in Names}
        \cup {<< <<"P","r","o","d">>, <<"2">> >>}
        \cup {<<>>}                                   \* blank line
        \cup {<< <<"1">> >>}                          \* shorter than the header
        \cup {<<n, <<"1">>, <<"x">>>> : n \in {<<"P","r","o","d">>, <<"D","V">>}}

Headers ==
    { <<"Name","Id">>, <<"Id","Name">>, <<"Name","Id","Env">>, <<"Id">>, <<"Name">> }

PriorFile == [exists |-> TRUE, header |-> <<"Old">>, rows |-> <<>>]

NoFile == [exists |-> FALSE, content |-> <<>>]

InitInvIdle ==
    /\ target_subscriptions = <<>>
    /\ tenant = <<>>
    /\ subscriptions = <<>>
    /\ sub_index = 1
    /\ resources = <<>>
    /\ all_resources = <<>>
    /\ listed = <<>>
    /\ analysis = <<>>
    /\ saved_file = NoFile

InitFilterIdle ==
    /\ input_file = AbsentFile
    /\ output_file = AbsentFile
    /\ outfile_opened = FALSE
    /\ row_index = 1
    /\ filtered_data = <<>>
    /\ excluded_count = 0
    /\ total_count = 0
    /\ printed = "nothing"
    /\ result = "running"

InitFilter ==
    /\ pc = "open_input"
    /\ InitInvIdle
    /\ input_file \in {AbsentFile} \cup
            {[exists |-> TRUE, header |-> h, rows |-> r] :
                h \in Headers, r \in SeqsUpTo(RawRows, MaxRows)}
    /\ output_file \in {AbsentFile, PriorFile}
    /\ outfile_opened = FALSE
    /\ row_index = 1
    /\ filtered_data = <<>>
    /\ excluded_count = 0
    /\ total_count = 0
    /\ printed = "nothing"
    /\ result = "running"

\* line 19, the open succeeds
OpenInput ==
    /\ pc = "open_input"
    /\ input_file.exists
    /\ pc' = "reading"
    /\ UNCHANGED <<filterVars, invVars>>

\* lines 19, 56-58
InputNotFound ==
    /\ pc = "open_input"
    /\ ~input_file.exists
    /\ printed' = "input_not_found"
    /\ result' = "False"
    /\ pc' = "returned"
    /\ UNCHANGED <<input_file, output_file, outfile_opened, row_index, filtered_data,
                   excluded_count, total_count, invVars>>

AtRow == pc = "reading" /\ row_index <= Len(input_file.rows)
CurrentRaw == input_file.rows[row_index]
CurrentRow == DictRow(input_file.header, CurrentRaw)

\* csv.DictReader.__next__ skips lines that parse to []
SkipBlankRow ==
    /\ AtRow
    /\ CurrentRaw = <<>>
    /\ row_index' = row_index + 1
    /\ UNCHANGED <<pc, input_file, output_file, outfile_opened, filtered_data,
                   excluded_count, total_count, printed, result, invVars>>

\* lines 23-25 then 59-61: .lstrip on None raises AttributeError
RowRaises ==
    /\ AtRow
    /\ CurrentRaw # <<>>
    /\ GetName(CurrentRow) = restval
    /\ total_count' = total_count + 1
    /\ printed' = "error_processing"
    /\ result' = "False"
    /\ pc' = "returned"
    /\ UNCHANGED <<input_file, output_file, outfile_opened, row_index, filtered_data,
                   excluded_count, invVars>>

\* lines 23-31
KeepRow ==
    /\ AtRow
    /\ CurrentRaw # <<>>
    /\ GetName(CurrentRow) # restval
    /\ ~should_exclude(lstrip(GetName(CurrentRow), BOM))
    /\ total_count' = total_count + 1
    /\ filtered_data' = Append(filtered_data, CurrentRow)
    /\ row_index' = row_index + 1
    /\ UNCHANGED <<pc, input_file, output_file, outfile_opened, excluded_count,
                   printed, result, invVars>>

\* lines 23-28, 32-34
ExcludeRow ==
    /\ AtRow
    /\ CurrentRaw # <<>>
    /\ GetName(CurrentRow) # restval
    /\ should_exclude(lstrip(GetName(CurrentRow), BOM))
    /\ total_count' = total_count + 1
    /\ excluded_count' = excluded_count + 1
    /\ row_index' = row_index + 1
    /\ UNCHANGED <<pc, input_file, output_file, outfile_opened, filtered_data,
                   printed, result, invVars>>

AtEnd == pc = "reading" /\ row_index > Len(input_file.rows)

\* lines 37-52, 63
WriteOutput ==
    /\ AtEnd
    /\ filtered_data # <<>>
    /\ \A i \in 1..Len(filtered_data) : WrongFields(filtered_data[i]) = {}
    /\ outfile_opened' = TRUE
    /\ output_file' = [exists |-> TRUE, header |-> fieldnames,
                       rows |-> WrittenPrefix(filtered_data)]
    /\ printed' = "success_summary"
    /\ result' = "True"
    /\ pc' = "returned"
    /\ UNCHANGED <<input_file, row_index, filtered_data, excluded_count, total_count,
                   invVars>>

\* lines 37-46 then 59-61: DictWriter raises ValueError on a key outside fieldnames
WriteRaises ==
    /\ AtEnd
    /\ filtered_data # <<>>
    /\ \E i \in 1..Len(filtered_data) : WrongFields(filtered_data[i]) # {}
    /\ outfile_opened' = TRUE
    /\ output_file' = [exists |-> TRUE, header |-> fieldnames,
                       rows |-> WrittenPrefix(filtered_data)]
    /\ printed' = "error_processing"
    /\ result' = "False"
    /\ pc' = "returned"
    /\ UNCHANGED <<input_file, row_index, filtered_data, excluded_count, total_count,
                   invVars>>

\* NoEntries with the output opened before the emptiness test
NoEntriesTruncates ==
    /\ AtEnd
    /\ filtered_data = <<>>
    /\ outfile_opened' = TRUE
    /\ output_file' = [exists |-> TRUE, header |-> fieldnames, rows |-> <<>>]
    /\ printed' = "no_production_entries"
    /\ result' = "True"
    /\ pc' = "returned"
    /\ UNCHANGED <<input_file, row_index, filtered_data, excluded_count, total_count,
                   invVars>>

\* lines 37, 53-54, 63
NoEntries ==
    /\ AtEnd
    /\ filtered_data = <<>>
    /\ printed' = "no_production_entries"
    /\ result' = "True"
    /\ pc' = "returned"
    /\ UNCHANGED <<input_file, output_file, outfile_opened, row_index, filtered_data,
                   excluded_count, total_count, invVars>>

NextFilter ==
    \/ OpenInput
    \/ InputNotFound
    \/ SkipBlankRow
    \/ RowRaises
    \/ KeepRow
    \/ ExcludeRow
    \/ WriteOutput
    \/ WriteRaises
    \/ NoEntries
(***************************************************************************)
(* list_resource_types.py                                                  *)
(* A Python dict / Counter is a sequence of [key, ...] records in          *)
(* insertion order.                                                        *)
(***************************************************************************)
TopN == 10

\* BuildAllSubscriptions without the test of subscription.state
RECURSIVE BuildAllSubscriptionsAnyState(_, _)
BuildAllSubscriptionsAnyState(listing, d) ==
    IF listing = <<>> THEN d
    ELSE BuildAllSubscriptionsAnyState(Tail(listing),
            (Head(listing).subscription_id :> Head(listing).subscription_id)
            @@ (Head(listing).display_name :> Head(listing).subscription_id)
            @@ d)

\* all_subscriptions after the loop of lines 40-43: key -> subscription id,
\* later assignments overwrite earlier ones
RECURSIVE BuildAllSubscriptions(_, _)
BuildAllSubscriptions(listing, d) ==
    IF listing = <<>> THEN d
    ELSE LET subscription == Head(listing)
         IN  IF subscription.state = "Enabled"
             THEN BuildAllSubscriptions(Tail(listing),
                    (subscription.subscription_id :> subscription.subscription_id)
                    @@ (subscription.display_name :> subscription.subscription_id)
                    @@ d)
             ELSE BuildAllSubscriptions(Tail(listing), d)

\* the loop of lines 51-56
RECURSIVE FindTargets(_, _)
FindTargets(targets, all_subscriptions) ==
    IF targets = <<>> THEN <<>>
    ELSE IF Head(targets) \in DOMAIN all_subscriptions
         THEN <<all_subscriptions[Head(targets)]>>
                 \o FindTargets(Tail(targets), all_subscriptions)
         ELSE FindTargets(Tail(targets), all_subscriptions)

get_subscriptions(targets, listing) ==
    FindTargets(targets, BuildAllSubscriptions(listing, <<>>))

\* str.split(sep) on a string given as a sequence of tokens
RECURSIVE SplitFrom(_, _, _)
SplitFrom(s, sep, cur) ==
    IF s = <<>> THEN <<cur>>
    ELSE IF Head(s) = sep THEN <<cur>> \o SplitFrom(Tail(s), sep, <<>>)
    ELSE SplitFrom(Tail(s), sep, Append(cur, Head(s)))

split(s, sep) == SplitFrom(s, sep, <<>>)

\* lines 84-90: the dict appended for one listed resource
ResourceDict(resource, subscription_id) ==
    [type |-> resource.type,
     name |-> resource.name,
     location |-> resource.location,
     resource_group |-> IF Len(split(resource.id, "/")) > 4
                        THEN split(resource.id, "/")[5]
                        ELSE <<"Unknown">>,
     subscription_id |-> subscription_id]

get_resource_type_descriptions ==
    ("Microsoft.Compute/virtualMachines" :> "Virtual machines for running applications and workloads") @@
    ("Microsoft.Storage/storageAccounts" :> "Storage accounts for data storage and file sharing") @@
    ("Microsoft.Web/sites" :> "App Service web applications and APIs") @@
    ("Microsoft.Sql/servers" :> "Azure SQL Database servers") @@
    ("Microsoft.Sql/servers/databases" :> "Azure SQL databases") @@
    ("Microsoft.Network/virtualNetworks" :> "Virtual networks for network isolation") @@
    ("Microsoft.Network/networkSecurityGroups" :> "Network security groups for traffic filtering") @@
    ("Microsoft.Network/publicIPAddresses" :> "Public IP addresses for internet connectivity") @@
    ("Microsoft.Network/loadBalancers" :> "Load balancers for distributing traffic") @@
    ("Microsoft.Network/networkInterfaces" :> "Network interfaces for VM connectivity") @@
    ("Microsoft.KeyVault/vaults" :> "Key vaults for secrets and certificate management") @@
    ("Microsoft.Insights/components" :> "Application Insights for application monitoring") @@
    ("Microsoft.Authorization/roleAssignments" :> "Role assignments for access control") @@
    ("Microsoft.Resources/resourceGroups" :> "Resource groups for organizing resources") @@
    ("Microsoft.ContainerRegistry/registries" :> "Container registries for Docker images") @@
    ("Microsoft.ContainerService/managedClusters" :> "Azure Kubernetes Service clusters") @@
    ("Microsoft.ServiceBus/namespaces" :> "Service Bus namespaces for messaging") @@
    ("Microsoft.EventHub/namespaces" :> "Event Hub namespaces for event streaming") @@
    ("Microsoft.Logic/workflows" :> "Logic Apps for workflow automation") @@
    ("Microsoft.Web/serverfarms" :> "App Service plans for hosting web apps") @@
    ("Microsoft.CognitiveServices/accounts" :> "Cognitive Services for AI capabilities") @@
    ("Microsoft.MachineLearningServices/workspaces" :> "Machine Learning workspaces") @@
    ("Microsoft.DocumentDB/databaseAccounts" :> "Cosmos DB database accounts") @@
    ("Microsoft.Cache/Redis" :> "Azure Cache for Redis") @@
    ("Microsoft.ApiManagement/service" :> "API Management services") @@
    ("Microsoft.DataFactory/factories" :> "Data Factory for data integration") @@
    ("Microsoft.StreamAnalytics/streamingjobs" :> "Stream Analytics for real-time analytics") @@
    ("Microsoft.Automation/automationAccounts" :> "Automation accounts for runbooks") @@
    ("Microsoft.RecoveryServices/vaults" :> "Recovery Services vaults for backup") @@
    ("Microsoft.Network/applicationGateways" :> "Application gateways for web traffic management") @@
    ("Microsoft.OperationalInsights/workspaces" :> "Log Analytics workspaces for monitoring and logging") @@
    ("Microsoft.Security/automations" :> "Security Center automation rules") @@
    ("Microsoft.ManagedIdentity/userAssignedIdentities" :> "User-assigned managed identities") @@
    ("Microsoft.AlertsManagement/actionRules" :> "Action rules for alert management") @@
    ("Microsoft.Monitor/actionGroups" :> "Action groups for alert notifications")

\* CountInto assigning 1 to a key seen again instead of adding 1
RECURSIVE CountIntoAssigning(_, _)
CountIntoAssigning(counter, keys) ==
    IF keys = <<>> THEN counter
    ELSE LET k == Head(keys)
             seen == \E i \in 1..Len(counter) : counter[i].key = k
             next == IF seen THEN counter
                     ELSE Append(counter, [key |-> k, count |-> 1])
         IN  CountIntoAssigning(next, Tail(keys))

\* collections.Counter(keys): counts in first-encountered order
RECURSIVE CountInto(_, _)
CountInto(counter, keys) ==
    IF keys = <<>> THEN counter
    ELSE LET k == Head(keys)
             seen == \E i \in 1..Len(counter) : counter[i].key = k
             next == IF seen
                     THEN [i \in 1..Len(counter) |->
                             IF counter[i].key = k
                             THEN [key |-> k, count |-> counter[i].count + 1]
                             ELSE counter[i]]
                     ELSE Append(counter, [key |-> k, count |-> 1])
         IN  CountInto(next, Tail(keys))

Counter(keys) == CountInto(<<>>, keys)

\* InsertDesc placing an item before the items of equal count
RECURSIVE InsertDescUnstable(_, _)
InsertDescUnstable(sorted, item) ==
    IF sorted = <<>> THEN <<item>>
    ELSE IF Head(sorted).count > item.count
         THEN <<Head(sorted)>> \o InsertDescUnstable(Tail(sorted), item)
         ELSE <<item>> \o sorted

\* sorted(items, key=itemgetter(1), reverse=True): stable, descending by count
RECURSIVE InsertDesc(_, _)
InsertDesc(sorted, item) ==
    IF sorted = <<>> THEN <<item>>
    ELSE IF Head(sorted).count >= item.count
         THEN <<Head(sorted)>> \o InsertDesc(Tail(sorted), item)
         ELSE <<item>> \o sorted

RECURSIVE SortDesc(_, _)
SortDesc(sorted, items) ==
    IF items = <<>> THEN sorted
    ELSE SortDesc(InsertDesc(sorted, Head(items)), Tail(items))

\* Counter.most_common(): every item
most_common_all(counter) == SortDesc(<<>>, counter)

\* Counter.most_common(n): heapq.nlargest(n, items, key=count), which is
\* sorted(items, key=count, reverse=True)[:n]
most_common(counter, n) ==
    LET all == SortDesc(<<>>, counter)
    IN  SubSeq(all, 1, IF Len(all) < n THEN Len(all) ELSE n)

\* round(num / den, 0) on the exact quotient, ties to even, for num >= 0, den > 0.
\* Python rounds the float (count / total) * 100; the two agree for every
\* total below 160 (the first total where a float falls on the other side
\* of a tie), and differ by one hundredth at most beyond.
RoundHalfEven(num, den) ==
    LET q == num \div den
        r == num % den
    IN  IF 2 * r < den THEN q
        ELSE IF 2 * r > den THEN q + 1
        ELSE IF q % 2 = 0 THEN q ELSE q + 1

\* percentage rounded to one decimal place
percentage_one_decimal(count, total) == RoundHalfEven(count * 1000, total) * 10

\* line 215: round((count / len(resources)) * 100, 2), in hundredths of a percent
percentage(count, total) == RoundHalfEven(count * 10000, total)

description_of(resource_type) ==
    IF resource_type \in DOMAIN get_resource_type_descriptions
    THEN get_resource_type_descriptions[resource_type]
    ELSE "No description available"

Field(rs, f) == [i \in 1..Len(rs) |-> rs[i][f]]

\* lines 176-218
analyze_resource_types(rs, scanned) ==
    IF rs = <<>>
    THEN [total_resources |-> 0,
          resource_types |-> <<>>,
          top_locations |-> <<>>,
          top_resource_groups |-> <<>>,
          subscriptions_scanned |-> scanned]
    ELSE LET resource_type_counts == Counter(Field(rs, "type"))
             location_counts == Counter(Field(rs, "location"))
             rg_counts == Counter(Field(rs, "resource_group"))
             subscription_counts == Counter(Field(rs, "subscription_id"))
             by_count == most_common_all(resource_type_counts)
         IN  [total_resources |-> Len(rs),
              resource_types |->
                 [i \in 1..Len(by_count) |->
                    [key |-> by_count[i].key,
                     count |-> by_count[i].count,
                     description |-> description_of(by_count[i].key),
                     percentage |-> percentage(by_count[i].count, Len(rs))]],
              top_locations |-> most_common(location_counts, TopN),
              top_resource_groups |-> most_common(rg_counts, TopN),
              subscription_distribution |-> subscription_counts,
              subscriptions_scanned |-> scanned]
\* no_resources without the early return of main
no_resources_never(rs) == FALSE

\* line 313: "if not all_resources"
no_resources(rs) == rs = <<>>

\* ---- inputs of the inventory runs
SubscriptionIds == {"id-1", "id-2", "id-3"}
DisplayNames == {"SLProd", "SLSharedDR"}
States == {"Enabled", "Disabled", "Warned"}

\* subscription ids are unique within a tenant
Tenants ==
    {t \in SeqsUpTo([display_name : DisplayNames, subscription_id : SubscriptionIds,
                     state : States], MaxTenant) :
        \A i, j \in 1..Len(t) : i # j => t[i].subscription_id # t[j].subscription_id}

TargetKeys == DisplayNames \cup {"id-1", "id-2", "ESS-PROD-C00-001"}

RunTenants ==
    {<< [display_name |-> "SLProd", subscription_id |-> "id-1", state |-> s1],
        [display_name |-> "SLSharedDR", subscription_id |-> "id-2", state |-> s2] >> :
        s1, s2 \in {"Enabled", "Disabled"}}

RunTargetKeys == {"SLProd", "id-1", "SLSharedDR", "ESS-PROD-C00-001"}

\* what resources.list() can yield: [type, name, location, id]
RawResources ==
    { [type |-> "Microsoft.Compute/virtualMachines", name |-> "vm1",
       location |-> "eastus",
       id |-> <<"/", "subscriptions", "/", "x", "/", "resourceGroups", "/", "rg1",
                "/", "providers", "/", "Microsoft.Compute", "/", "virtualMachines",
                "/", "vm1">>],
      [type |-> "Microsoft.Storage/storageAccounts", name |-> "st1",
       location |-> "westus",
       id |-> <<"/", "subscriptions", "/", "x">>] }

\* a whole run of main
Init ==
    /\ pc = "main"
    /\ InitFilterIdle
    /\ target_subscriptions \in SeqsUpTo(RunTargetKeys, MaxRunTargets)
    /\ tenant \in RunTenants
    /\ subscriptions = <<>>
    /\ sub_index = 1
    /\ resources = <<>>
    /\ all_resources = <<>>
    /\ listed = <<>>
    /\ analysis = <<>>
    /\ saved_file = NoFile

\* lines 307, 18-26, 330: the credential or client constructor raises
AnalyzerInitRaises ==
    /\ pc = "main"
    /\ pc' = "done"
    /\ UNCHANGED <<filterVars, invVars>>

\* lines 107-113 with get_subscriptions returning normally (lines 36-61)
ResolveTargets ==
    /\ pc = "main"
    /\ subscriptions' = get_subscriptions(target_subscriptions, tenant)
    /\ sub_index' = 1
    /\ pc' = IF subscriptions' = <<>> THEN "collected" ELSE "scan"
    /\ UNCHANGED <<filterVars, target_subscriptions, tenant, resources, all_resources,
                   listed, analysis, saved_file>>

\* lines 40, 63-65, 109-111: subscriptions.list() raises
SubscriptionListRaises ==
    /\ pc = "main"
    /\ subscriptions' = <<>>
    /\ pc' = "collected"
    /\ UNCHANGED <<filterVars, target_subscriptions, tenant, sub_index, resources,
                   all_resources, listed, analysis, saved_file>>

\* the for loop of lines 115-117 moves on
NextSubscription ==
    /\ sub_index' = sub_index + 1
    /\ pc' = IF sub_index + 1 > Len(subscriptions) THEN "collected" ELSE "scan"

\* return_on_error handing back what was read before the failure
return_partial_on_error(partial) == partial

\* get_resources_from_subscription returns [] from its except branch (lines 95-97)
return_on_error(partial) == <<>>

\* lines 116, 78, 95-97, 117: ResourceManagementClient(...) raises
ClientRaises ==
    /\ pc = "scan"
    /\ listed' = Append(listed, [subscription_id |-> subscriptions[sub_index],
                                 served |-> <<>>, failed |-> TRUE])
    /\ all_resources' = all_resources \o return_on_error(<<>>)
    /\ NextSubscription
    /\ UNCHANGED <<filterVars, target_subscriptions, tenant, subscriptions, resources,
                   analysis, saved_file>>

\* lines 116, 78-81
StartListing ==
    /\ pc = "scan"
    /\ resources' = <<>>
    /\ listed' = Append(listed, [subscription_id |-> subscriptions[sub_index],
                                 served |-> <<>>, failed |-> FALSE])
    /\ pc' = "listing"
    /\ UNCHANGED <<filterVars, target_subscriptions, tenant, subscriptions, sub_index,
                   all_resources, analysis, saved_file>>

\* lines 83-90: the iterator yields one more resource
ListResource ==
    /\ pc = "listing"
    /\ Len(resources) < MaxPerSub
    /\ \E resource \in RawResources :
        /\ resources' = Append(resources,
                               ResourceDict(resource, subscriptions[sub_index]))
        /\ listed' = [listed EXCEPT ![Len(listed)].served = Append(@, resource)]
    /\ UNCHANGED <<pc, filterVars, target_subscriptions, tenant, subscriptions,
                   sub_index, all_resources, analysis, saved_file>>

\* lines 83, 95-97, 117: the iterator raises (a page request fails, ...)
ListingRaises ==
    /\ pc = "listing"
    /\ listed' = [listed EXCEPT ![Len(listed)].failed = TRUE]
    /\ all_resources' = all_resources \o return_on_error(resources)
    /\ NextSubscription
    /\ UNCHANGED <<filterVars, target_subscriptions, tenant, subscriptions, resources,
                   analysis, saved_file>>

\* lines 83, 92-93, 117: the iterator is exhausted
ListingDone ==
    /\ pc = "listing"
    /\ all_resources' = all_resources \o resources
    /\ NextSubscription
    /\ UNCHANGED <<filterVars, target_subscriptions, tenant, subscriptions, resources,
                   listed, analysis, saved_file>>

\* lines 313-315
ReturnNoResources ==
    /\ pc = "collected"
    /\ no_resources(all_resources)
    /\ pc' = "done"
    /\ UNCHANGED <<filterVars, invVars>>

\* lines 313, 319-323
Analyze ==
    /\ pc = "collected"
    /\ ~no_resources(all_resources)
    /\ analysis' = analyze_resource_types(all_resources, target_subscriptions)
    /\ pc' = "save"
    /\ UNCHANGED <<filterVars, target_subscriptions, tenant, subscriptions, sub_index,
                   resources, all_resources, listed, saved_file>>

\* lines 326, 281-284: json.dump keeps the top-level keys of the dict
SaveResults ==
    /\ pc = "save"
    /\ saved_file' = [exists |-> TRUE, content |-> analysis]
    /\ pc' = "done"
    /\ UNCHANGED <<filterVars, target_subscriptions, tenant, subscriptions, sub_index,
                   resources, all_resources, listed, analysis>>

\* lines 326, 282, 285-286: open() raises, nothing is written
SaveRaises ==
    /\ pc = "save"
    /\ pc' = "done"
    /\ UNCHANGED <<filterVars, invVars>>

Next ==
    \/ AnalyzerInitRaises
    \/ ResolveTargets
    \/ SubscriptionListRaises
    \/ ClientRaises
    \/ StartListing
    \/ ListResource
    \/ ListingRaises
    \/ ListingDone
    \/ ReturnNoResources
    \/ Analyze
    \/ SaveResults
    \/ SaveRaises

Spec == Init /\ [][Next]_vars

\* ---- filter_production_groups on every input CSV
SpecFilter == InitFilter /\ [][NextFilter]_vars

\* ---- get_subscriptions on every target list and tenant
InitResolve ==
    /\ pc = "main"
    /\ InitFilterIdle
    /\ target_subscriptions \in SeqsUpTo(TargetKeys, MaxTargets)
    /\ tenant \in Tenants
    /\ subscriptions = <<>>
    /\ sub_index = 1
    /\ resources = <<>>
    /\ all_resources = <<>>
    /\ listed = <<>>
    /\ analysis = <<>>
    /\ saved_file = NoFile

NextResolve == ResolveTargets

SpecResolve == InitResolve /\ [][NextResolve]_vars
\* ---- analyze_resource_types on every resource list
AggTypes ==
    << "Microsoft.Compute/virtualMachines", "Microsoft.Storage/storageAccounts",
       "Microsoft.Web/sites", "Contoso.Custom/widgets" >>

\* the k-th resource offered: its own location, a resource group shared by the
\* first and the last, one of four types, one of two subscriptions
AggResource(k) ==
    [type |-> AggTypes[(k % Len(AggTypes)) + 1],
     name |-> "res-" \o ToString(k),
     location |-> "loc-" \o ToString(k),
     resource_group |-> <<"rg-" \o ToString(IF k = NKeys THEN 1 ELSE k)>>,
     subscription_id |-> IF k % 2 = 1 THEN "id-1" ELSE "id-2"]

\* a run of distinct resources (none, some, or enough to outnumber TopN with the
\* tail) followed by a free tail
AggPrefixes == {0, 4, NKeys - 3}

AggInputs ==
    {[i \in 1..(p + Len(t)) |-> AggResource(IF i <= p THEN i ELSE t[i - p])] :
        p \in AggPrefixes, t \in SeqsUpTo(1..NKeys, MaxTail)}

InitAgg ==
    /\ pc = "analyze"
    /\ InitFilterIdle
    /\ target_subscriptions = <<"SLProd", "SLSharedDR">>
    /\ tenant = <<>>
    /\ subscriptions = <<>>
    /\ sub_index = 1
    /\ resources = <<>>
    /\ all_resources \in AggInputs
    /\ listed = <<>>
    /\ analysis = <<>>
    /\ saved_file = NoFile

\* line 319 applied to any list
AnalyzeAny ==
    /\ pc = "analyze"
    /\ analysis' = analyze_resource_types(all_resources, target_subscriptions)
    /\ pc' = "analysed"
    /\ UNCHANGED <<filterVars, target_subscriptions, tenant, subscriptions, sub_index,
                   resources, all_resources, listed, saved_file>>

NextAgg == AnalyzeAny

SpecAgg == InitAgg /\ [][NextAgg]_vars
(***************************************************************************)
(* Properties of filter_production_groups                                  *)
(***************************************************************************)
\* position of a column in a header without repeated names, 0 when absent
ColumnOf(header, col) ==
    IF col \in Range(header) THEN CHOOSE p \in 1..Len(header) : header[p] = col ELSE 0

\* the line supplies a value for the column
HasField(header, raw, col) ==
    ColumnOf(header, col) # 0 /\ ColumnOf(header, col) <= Len(raw)

\* the value of a column on one line, the empty string when it supplies none
FieldOf(header, raw, col) ==
    IF HasField(header, raw, col) THEN raw[ColumnOf(header, col)] ELSE <<>>

\* the exclusion rule of the specification on a BOM-stripped name
HasMarker(name) == \E e \in Range(exclusion_strings) : Contains(name, e)

Survives(header, raw) == ~HasMarker(lstrip(FieldOf(header, raw, "Name"), BOM))

\* the (Name, Id) pairs of the surviving non-blank lines, in input order
RECURSIVE SurvivingRows(_, _)
SurvivingRows(header, raws) ==
    IF raws = <<>> THEN <<>>
    ELSE IF Head(raws) # <<>> /\ Survives(header, Head(raws))
         THEN << <<FieldOf(header, Head(raws), "Name"), FieldOf(header, Head(raws), "Id")>> >>
                 \o SurvivingRows(header, Tail(raws))
         ELSE SurvivingRows(header, Tail(raws))

ReadCompleted ==
    pc = "returned" /\ input_file.exists /\ row_index > Len(input_file.rows)

\* C1: when the input was read to its end and at least one row survived, the
\* output file holds exactly the surviving input rows, each with its Name and
\* Id, in input order.
C1_OutputIsExactlySurvivors ==
    (ReadCompleted /\ filtered_data # <<>>)
        => /\ output_file.exists
           /\ output_file.rows = SurvivingRows(input_file.header, input_file.rows)

DataLines == {i \in 1..Len(input_file.rows) : input_file.rows[i] # <<>>}

NameMissing(i) == ~HasField(input_file.header, input_file.rows[i], "Name")

\* C2: a run over an input with a row whose Name is missing returns True and
\* keeps every such row (its name being taken as the empty string).
C2_MissingNameIsKept ==
    (pc = "returned" /\ input_file.exists /\ \E i \in DataLines : NameMissing(i))
        => /\ result = "True"
           /\ \A i \in DataLines :
                 NameMissing(i) =>
                    DictRow(input_file.header, input_file.rows[i]) \in Range(filtered_data)

\* every data row carries a name with an exclusion marker (or there is none)
AllRowsExcluded ==
    /\ input_file.exists
    /\ \A i \in DataLines :
          /\ HasField(input_file.header, input_file.rows[i], "Name")
          /\ ~Survives(input_file.header, input_file.rows[i])

\* C3: when every input row is excluded (or there is no data row) the output
\* file is never opened and never changes, the run ends with the "No
\* production entries found to save." message and returns True; and the
\* output file is opened only when at least one row survived.
C3_NoWriteWhenNothingSurvives ==
    /\ []((AllRowsExcluded /\ pc = "returned")
            => (printed = "no_production_entries" /\ result = "True"))
    /\ [](AllRowsExcluded => ~outfile_opened)
    /\ [][AllRowsExcluded => output_file' = output_file]_vars
    /\ [](outfile_opened => filtered_data # <<>>)

C3_Witness ==
    /\ pc = "returned"
    /\ AllRowsExcluded
    /\ Cardinality(DataLines) = 2
    /\ output_file = PriorFile
    /\ printed = "no_production_entries"

(***************************************************************************)
(* Properties of get_subscriptions and get_all_resources                   *)
(***************************************************************************)
\* the enabled subscriptions a target names, by display name or by id
Named(target) ==
    {s \in Range(tenant) :
        /\ s.state = "Enabled"
        /\ (s.display_name = target \/ s.subscription_id = target)}

RECURSIVE FoundTargets(_)
FoundTargets(targets) ==
    IF targets = <<>> THEN <<>>
    ELSE IF Named(Head(targets)) # {}
         THEN <<Head(targets)>> \o FoundTargets(Tail(targets))
         ELSE FoundTargets(Tail(targets))

\* C4: the resolved list has one entry per target that names an enabled
\* subscription, in target order, each entry being the id of an enabled
\* subscription that target names; no entry is the id of a subscription that
\* is not enabled.
C4_ResolvesTargetsInOrder ==
    pc # "main" =>
        LET hits == FoundTargets(target_subscriptions)
        IN  /\ Len(subscriptions) = Len(hits)
            /\ \A i \in 1..Len(hits) :
                  subscriptions[i] \in {s.subscription_id : s \in Named(hits[i])}
            /\ \A i \in 1..Len(subscriptions) :
                  \A s \in Range(tenant) :
                     s.subscription_id = subscriptions[i] => s.state = "Enabled"

C4_Witness ==
    /\ pc # "main"
    /\ Len(target_subscriptions) = 3
    /\ Len(subscriptions) = 2
    /\ \E s \in Range(tenant) :
          s.display_name = target_subscriptions[1] /\ s.state = "Enabled"
    /\ Named(target_subscriptions[2]) = {}
    /\ \E s \in Range(tenant) :
          s.subscription_id = target_subscriptions[2] /\ s.state = "Disabled"
    /\ \E s \in Range(tenant) :
          s.subscription_id = target_subscriptions[3] /\ s.state = "Enabled"

\* C9: the resolved list holds each subscription id at most once.
C9_EachIdAtMostOnce ==
    \A i, j \in 1..Len(subscriptions) :
        i # j => subscriptions[i] # subscriptions[j]

\* what one loop iteration contributes: nothing when the listing raised,
\* otherwise every resource the iterator served, tagged with the subscription
Contribution(entry) ==
    IF entry.failed THEN <<>>
    ELSE [i \in 1..Len(entry.served) |->
            ResourceDict(entry.served[i], entry.subscription_id)]

RECURSIVE Combined(_)
Combined(entries) ==
    IF entries = <<>> THEN <<>>
    ELSE Contribution(Head(entries)) \o Combined(Tail(entries))

ScanOver == pc \in {"collected", "save", "done"}

\* C5: once the scan is over every resolved subscription has been listed, in
\* resolved order, whether or not an earlier listing raised, and the combined
\* list is the concatenation of the complete listings of those that did not
\* raise.
C5_FailureIsIsolated ==
    ScanOver =>
        /\ Len(listed) = Len(subscriptions)
        /\ \A i \in 1..Len(listed) : listed[i].subscription_id = subscriptions[i]
        /\ all_resources = Combined(listed)

C5_Witness ==
    /\ ScanOver
    /\ Len(listed) = 2
    /\ listed[1].failed /\ Len(listed[1].served) = 1
    /\ ~listed[2].failed /\ Len(listed[2].served) = 1
    /\ Len(all_resources) = 1

SixKeys ==
    {"total_resources", "resource_types", "top_locations", "top_resource_groups",
     "subscription_distribution", "subscriptions_scanned"}

\* C6: whenever the JSON file has been written its object has the six
\* top-level keys and describes at least one resource.
C6_PersistedHasSixKeys ==
    saved_file.exists =>
        /\ DOMAIN saved_file.content = SixKeys
        /\ saved_file.content.total_resources > 0

C6_Witness ==
    /\ saved_file.exists
    /\ pc = "done"
    /\ Len(saved_file.content.subscription_distribution) = 2

(***************************************************************************)
(* Properties of analyze_resource_types                                    *)
(***************************************************************************)
Occurrences(keys, k) == Cardinality({i \in 1..Len(keys) : keys[i] = k})

FirstSeen(keys, k) == CHOOSE i \in 1..Len(keys) :
                         keys[i] = k /\ \A j \in 1..(i - 1) : keys[j] # k

RECURSIVE SumCounts(_)
SumCounts(table) ==
    IF table = <<>> THEN 0 ELSE Head(table).count + SumCounts(Tail(table))

RECURSIVE SumPercentages(_)
SumPercentages(table) ==
    IF table = <<>> THEN 0 ELSE Head(table).percentage + SumPercentages(Tail(table))

TableKeys(table) == {table[i].key : i \in 1..Len(table)}

TopTableOK(top, keys) ==
    /\ Len(top) <= 10
    /\ \A i, j \in 1..Len(top) : i # j => top[i].key # top[j].key
    /\ \A i \in 1..Len(top) : top[i].count = Occurrences(keys, top[i].key)
    /\ \A i \in 1..(Len(top) - 1) : top[i].count >= top[i + 1].count
    /\ \A i, j \in 1..Len(top) :
          (i < j /\ top[i].count = top[j].count)
             => FirstSeen(keys, top[i].key) < FirstSeen(keys, top[j].key)
    /\ \A k \in Range(keys) \ TableKeys(top) :
          /\ Len(top) = 10
          /\ Occurrences(keys, k) <= top[Len(top)].count

\* C7: top_locations and top_resource_groups have at most 10 entries, in
\* non-increasing order of count, equal counts in first-encountered order,
\* and a key is left out only when 10 are retained, none with a smaller count.
C7_TopTablesOrderedAndBounded ==
    pc = "analysed" =>
        /\ TopTableOK(analysis.top_locations, Field(all_resources, "location"))
        /\ TopTableOK(analysis.top_resource_groups,
                      Field(all_resources, "resource_group"))

C7_Witness ==
    /\ pc = "analysed"
    /\ Cardinality(Range(Field(all_resources, "location"))) > 10
    /\ Len(analysis.top_locations) = 10
    /\ analysis.top_locations[1].count = 2
    /\ analysis.top_locations[1].key = "loc-11"
    /\ analysis.top_locations[2].count = 1

\* C8: for a non-empty list every percentage is count/total*100 rounded to the
\* nearest hundredth, and the percentages sum to 100.00 within 0.01 per type.
C8_PercentagesSumTo100 ==
    (pc = "analysed" /\ all_resources # <<>>) =>
        LET types == analysis.resource_types
            total == Len(all_resources)
            sum == SumPercentages(types)
        IN  /\ \A i \in 1..Len(types) :
                  /\ 2 * (types[i].percentage * total - types[i].count * 10000) <= total
                  /\ 2 * (types[i].count * 10000 - types[i].percentage * total) <= total
            /\ sum - 10000 <= Len(types)
            /\ 10000 - sum <= Len(types)

C8_Witness ==
    /\ pc = "analysed"
    /\ Len(all_resources) = 7
    /\ Len(analysis.resource_types) = 4
    /\ SumPercentages(analysis.resource_types) = 10001

\* C10: for a non-empty list total_resources is its length, the type counts
\* and the subscription counts each sum to it, every count is positive, and
\* the top-10 tables sum to at most it, to exactly it when no key is left out.
C10_CountsAreConserved ==
    (pc = "analysed" /\ all_resources # <<>>) =>
        LET total == Len(all_resources)
            tables == <<analysis.resource_types, analysis.subscription_distribution,
                        analysis.top_locations, analysis.top_resource_groups>>
        IN  /\ analysis.total_resources = total
            /\ SumCounts(analysis.resource_types) = total
            /\ SumCounts(analysis.subscription_distribution) = total
            /\ \A t \in 1..4 : \A i \in 1..Len(tables[t]) : tables[t][i].count > 0
            /\ SumCounts(analysis.top_locations) <= total
            /\ SumCounts(analysis.top_resource_groups) <= total
            /\ Cardinality(Range(Field(all_resources, "location"))) <= 10
                  => SumCounts(analysis.top_locations) = total
            /\ Cardinality(Range(Field(all_resources, "resource_group"))) <= 10
                  => SumCounts(analysis.top_resource_groups) = total

C10_Witness ==
    /\ pc = "analysed"
    /\ Len(all_resources) = 12
    /\ SumCounts(analysis.top_locations) = 11
    /\ SumCounts(analysis.top_resource_groups) = 12
    /\ Len(analysis.top_resource_groups) = 10
====
